---- MODULE Spec2Model ----
(***************************************************************************)
(* TrendFilter (freqtrade/pairlist/TrendFilter.py): a pair-list filter     *)
(* that keeps a pair when its recent candles show the configured trend.    *)
(* The model covers the constructor (configuration checks and timeframe    *)
(* parsing), the class-level result cache, _validate_pair and the trend    *)
(* classifier _get_ticker_trend.                                           *)
(*                                                                         *)
(* Time is counted in ticks, TicksPerSecond ticks to the second, so that   *)
(* datetime.now().timestamp() (a float) and int(...) of it (whole seconds) *)
(* are different values.  Prices and indicator values are exact rationals  *)
(* extended with nan, +inf and -inf (numpy float64 division by zero yields *)
(* these and does not raise); floating-point rounding is not modelled.     *)
(***************************************************************************)
EXTENDS Integers, Sequences, FiniteSets, TLC

\* ------------------------------------------------------------------------
\* Bounds of the model
\* ------------------------------------------------------------------------
TicksPerSecond == 2
MaxClock == 4
MaxCandles == 4
MaxTfLen == 3
MaxPrice == 3

\* ------------------------------------------------------------------------
\* Defaults of the configuration (pairlistconfig.get(key, default))
\* ------------------------------------------------------------------------
DefaultWindowPeriods == 100
DefaultSmoothEma == 25
DefaultSidewaysPct == 10
DefaultRefreshPeriod == 180

Symbols == {"BTC/USD", "ETH/USD"}
Instances == {"f1", "f2", "f3"}

\* ------------------------------------------------------------------------
\* Python values
\* ------------------------------------------------------------------------
\* An optional integer: Python None, or an int.
None == [none |-> TRUE, val |-> 0]
Some(v) == [none |-> FALSE, val |-> v]
\* Truthiness of "if x:" for x an int or None.
Truthy(x) == ~x.none /\ x.val # 0

\* A key of a configuration dictionary: absent, or present with a value.
Missing == [present |-> FALSE, val |-> 0]
MissingStr == [present |-> FALSE, val |-> << >>]
Given(v) == [present |-> TRUE, val |-> v]
\* dict.get(key, default)
get(entry, default) == IF entry.present THEN entry.val ELSE default

Abs(x) == IF x < 0 THEN -x ELSE x

RECURSIVE GCD(_, _)
GCD(a, b) == IF b = 0 THEN a ELSE GCD(b, a % b)

\* ------------------------------------------------------------------------
\* float64 values: exact rationals n/d (d > 0, lowest terms), nan, +-inf
\* ------------------------------------------------------------------------
Fin(n, d) == LET g == GCD(Abs(n), d) IN [k |-> "fin", n |-> n \div g, d |-> d \div g]
NaN == [k |-> "nan", n |-> 0, d |-> 1]
PInf == [k |-> "pinf", n |-> 1, d |-> 1]
NInf == [k |-> "ninf", n |-> -1, d |-> 1]
FromInt(i) == Fin(i, 1)
IsInf(a) == a.k \in {"pinf", "ninf"}
Sgn(a) == IF a.n > 0 THEN 1 ELSE IF a.n < 0 THEN -1 ELSE 0
Signed(s) == IF s > 0 THEN PInf ELSE IF s < 0 THEN NInf ELSE NaN

FNeg(a) == CASE a.k = "fin" -> Fin(-a.n, a.d)
             [] a.k = "pinf" -> NInf
             [] a.k = "ninf" -> PInf
             [] OTHER -> NaN

FAdd(a, b) == IF a.k = "nan" \/ b.k = "nan" THEN NaN
              ELSE IF IsInf(a) THEN (IF IsInf(b) /\ b.k # a.k THEN NaN ELSE a)
              ELSE IF IsInf(b) THEN b
              ELSE Fin(a.n * b.d + b.n * a.d, a.d * b.d)

FSub(a, b) == FAdd(a, FNeg(b))

FMul(a, b) == IF a.k = "nan" \/ b.k = "nan" THEN NaN
              ELSE IF IsInf(a) \/ IsInf(b) THEN Signed(Sgn(a) * Sgn(b))
              ELSE Fin(a.n * b.n, a.d * b.d)

\* numpy float64 division: x / 0 is +-inf or nan (a RuntimeWarning, no exception).
FDiv(a, b) == IF a.k = "nan" \/ b.k = "nan" THEN NaN
              ELSE IF IsInf(a) THEN (IF IsInf(b) THEN NaN
                                     ELSE Signed(Sgn(a) * (IF b.n < 0 THEN -1 ELSE 1)))
              ELSE IF IsInf(b) THEN FromInt(0)
              ELSE IF b.n = 0 THEN Signed(Sgn(a))
              ELSE Fin(a.n * b.d * Sgn(b), a.d * Abs(b.n))

\* a > b; every comparison with nan is False.
FGt(a, b) == IF a.k = "nan" \/ b.k = "nan" THEN FALSE
             ELSE IF a.k = "pinf" THEN b.k # "pinf"
             ELSE IF a.k = "ninf" THEN FALSE
             ELSE IF b.k = "pinf" THEN FALSE
             ELSE IF b.k = "ninf" THEN TRUE
             ELSE a.n * b.d > b.n * a.d

FLt(a, b) == FGt(b, a)

\* ------------------------------------------------------------------------
\* Strings are sequences of one-character strings: "5m" is <<"5", "m">>.
\* ------------------------------------------------------------------------
Digits == {"0", "1", "2", "3", "4", "5", "6", "7", "8", "9"}

DigitVal(c) == CASE c = "0" -> 0 [] c = "1" -> 1 [] c = "2" -> 2 [] c = "3" -> 3
                 [] c = "4" -> 4 [] c = "5" -> 5 [] c = "6" -> 6 [] c = "7" -> 7
                 [] c = "8" -> 8 [] c = "9" -> 9

AllDigits(s) == Len(s) > 0 /\ \A k \in 1..Len(s) : s[k] \in Digits

RECURSIVE DigitsValue(_)
DigitsValue(s) == IF s = <<>> THEN 0
                  ELSE 10 * DigitsValue(SubSeq(s, 1, Len(s) - 1)) + DigitVal(s[Len(s)])

\* Python int(str) on the model's alphabet (digits, "-", letters): an optional
\* sign followed by at least one decimal digit; anything else is a ValueError.
\* Leading zeros are accepted ("05" is 5), and so are 0 and negative numbers.
int(s) == IF AllDigits(s) THEN [ok |-> TRUE, val |-> DigitsValue(s)]
          ELSE IF Len(s) > 1 /\ s[1] = "-" /\ AllDigits(Tail(s))
               THEN [ok |-> TRUE, val |-> -DigitsValue(Tail(s))]
          ELSE [ok |-> FALSE, val |-> 0]

\* ------------------------------------------------------------------------
\* TrendFilter.__init__
\* ------------------------------------------------------------------------
\* The filter object before any attribute is assigned.  attrs is the set of
\* attributes __init__ has assigned: reading any other raises AttributeError.
NoFilter == [built |-> FALSE, attrs |-> {}, trend |-> "", enabled |-> FALSE,
             timeframe |-> <<>>, window_periods |-> 0, smooth_ema |-> 0,
             total_periods |-> 0, sideways_pct |-> 0, refresh_period |-> 0,
             seconds |-> None, minutes |-> None, hours |-> None, days |-> None]

EnabledAttrs == {"_timeframe", "_window_periods", "_smooth_ema", "_total_periods",
                 "_sideways_pct", "_refresh_period",
                 "_seconds", "_minutes", "_hours", "_days"}

\* line 33: the accepted values of 'trend'
ValidTrends == {"any", "bull", "bear", "sideways"}

\* A variant of lines 47-67 with one more branch.
UnitSuffixes_Extra == {"s", "m", "h", "d", "x"}

\* lines 47-69: the suffix selects the one attribute that receives int(prefix).
UnitSuffixes == {"s", "m", "h", "d"}

Raised(exc) == [outcome |-> "raise", exc |-> exc, self |-> NoFilter]
Built(self) == [outcome |-> "ok", exc |-> "", self |-> self]

\* lines 47-69, given the attributes assigned on lines 41-46
ParseTimeframe(self) ==
    LET tf == self.timeframe
        suffix == tf[Len(tf)]
        prefix == int(SubSeq(tf, 1, Len(tf) - 1))
    IN  IF Len(tf) = 0 THEN Raised("IndexError")
        ELSE IF suffix \notin UnitSuffixes THEN Raised("OperationalException")
        ELSE IF ~prefix.ok THEN Raised("ValueError")
        ELSE Built([self EXCEPT
                 !.seconds = IF suffix = "s" THEN Some(prefix.val) ELSE None,
                 !.minutes = IF suffix = "m" THEN Some(prefix.val) ELSE None,
                 !.hours = IF suffix = "h" THEN Some(prefix.val) ELSE None,
                 !.days = IF suffix = "d" THEN Some(prefix.val) ELSE None,
                 !.attrs = @ \cup {"_seconds", "_minutes", "_hours", "_days"}])

\* lines 31-69.  cfg.trend is pairlistconfig.get('trend', ""), a string;
\* cfg.timeframe is the 'timeframe' key of the bot configuration.
__init__(cfg) ==
    LET trend == cfg.trend
        enabled == trend # "any"
        base == [NoFilter EXCEPT !.built = TRUE, !.trend = trend, !.enabled = enabled,
                                 !.attrs = {"_trend", "_enabled"}]
        window == get(cfg.window_periods, DefaultWindowPeriods)
        smooth == get(cfg.smooth_ema, DefaultSmoothEma)
    IN  IF trend \notin ValidTrends THEN Raised("OperationalException")
        ELSE IF ~enabled THEN Built(base)
        ELSE IF ~cfg.timeframe.present THEN Raised("OperationalException")
        ELSE ParseTimeframe([base EXCEPT
                 !.timeframe = cfg.timeframe.val,
                 !.window_periods = window,
                 !.smooth_ema = smooth,
                 !.total_periods = window + smooth,
                 !.sideways_pct = get(cfg.sideways_pct, DefaultSidewaysPct),
                 !.refresh_period = get(cfg.refresh_period, DefaultRefreshPeriod),
                 !.attrs = @ \cup (EnabledAttrs \ {"_seconds", "_minutes", "_hours", "_days"})])

\* ------------------------------------------------------------------------
\* Candles and the trend classifier
\* ------------------------------------------------------------------------
Candle(h, l, c) == [high |-> h, low |-> l, close |-> c]

\* line 131: ohlcv_to_dataframe(..., drop_incomplete=True) drops the last
\* (still forming) candle of the series.
ohlcv_to_dataframe(candles) ==
    IF Len(candles) = 0 THEN <<>> ELSE SubSeq(candles, 1, Len(candles) - 1)

RECURSIVE SumClose(_, _)
SumClose(df, n) == IF n = 0 THEN 0 ELSE SumClose(df, n - 1) + df[n].close

\* line 133: one step of the moving average, prev + 2/(p+1) * (close - prev)
EmaNext(prev, close, p) ==
    FAdd(prev, FMul(Fin(2, p + 1), FSub(FromInt(close), prev)))

\* line 133: ta.EMA(dataframe, timeperiod=p, price='close').  The loop over
\* the rows lo..hi, col being the column of the rows before lo: nan during the
\* first p-1 rows, the mean of the first p closes at row p, then one step per
\* row.  The rows are taken in order, by halves, which keeps the evaluation of
\* a long frame shallow; col always holds exactly the rows before lo.
RECURSIVE EmaRows(_, _, _, _, _)
EmaRows(df, p, col, lo, hi) ==
    IF lo > hi \/ Len(col) # lo - 1 THEN col
    ELSE IF lo = hi
    THEN Append(col, IF lo < p THEN NaN
                     ELSE IF lo = p THEN Fin(SumClose(df, p), p)
                     ELSE EmaNext(col[lo - 1], df[lo].close, p))
    ELSE EmaRows(df, p, EmaRows(df, p, col, lo, (lo + hi) \div 2),
                 (lo + hi) \div 2 + 1, hi)

\* line 133: the 'ema' column.  talib rejects an empty input ("inputs are all
\* NaN") and a time period below 2.
EMA(df, p) ==
    IF Len(df) = 0 \/ p < 2 THEN [raise |-> TRUE, col |-> <<>>]
    ELSE [raise |-> FALSE, col |-> EmaRows(df, p, << >>, 1, Len(df))]

SetMax(S) == CHOOSE x \in S : \A y \in S : y <= x
SetMin(S) == CHOOSE x \in S : \A y \in S : x <= y

\* A variant of lines 161-162 that yields a fraction, not a percentage.
RelPos_Fraction(ema, min_price, rel_max) ==
    FDiv(FSub(ema, FromInt(min_price)), FromInt(rel_max))

\* lines 161-162: (ema - min_price) * 100 / rel_max
RelPos(ema, min_price, rel_max) ==
    FDiv(FMul(FSub(ema, FromInt(min_price)), FromInt(100)), FromInt(rel_max))

\* A variant of lines 163-167 whose band excludes its two borders.
Classify_Inclusive(start_rel, end_rel, sideways_pct) ==
    IF ~FLt(start_rel, FAdd(end_rel, FromInt(sideways_pct))) THEN "bear"
    ELSE IF ~FGt(start_rel, FSub(end_rel, FromInt(sideways_pct))) THEN "bull"
    ELSE "sideways"

\* lines 163-167
Classify(start_rel, end_rel, sideways_pct) ==
    IF FGt(start_rel, FAdd(end_rel, FromInt(sideways_pct))) THEN "bear"
    ELSE IF FLt(start_rel, FSub(end_rel, FromInt(sideways_pct))) THEN "bull"
    ELSE "sideways"

\* A variant of lines 150-167 on Python floats, whose division by zero raises
\* ZeroDivisionError.
_get_ticker_trend_PyFloat(self, df, ema) ==
    LET w == self.window_periods
        n == Len(df)
        win == (n - w + 1)..n
        min_price == SetMin({df[i].low : i \in win})
        rel_max == SetMax({df[i].high : i \in win}) - min_price
        start_rel == RelPos(ema[n - w + 1], min_price, rel_max)
        end_rel == RelPos(ema[n], min_price, rel_max)
    IN  IF n < w \/ w < 1 \/ rel_max = 0
        THEN [raise |-> TRUE, trend |-> "", start_rel |-> NaN, end_rel |-> NaN]
        ELSE [raise |-> FALSE,
              trend |-> Classify(start_rel, end_rel, self.sideways_pct),
              start_rel |-> start_rel, end_rel |-> end_rel]

\* lines 150-167.  df is the dataframe (a sequence of rows), ema its 'ema'
\* column; iloc[-w] of a frame shorter than w raises IndexError (line 160).
\* The answer carries the trend and the two relative positions it compared.
_get_ticker_trend(self, df, ema) ==
    LET w == self.window_periods
        n == Len(df)
    IN  IF n < w \/ w < 1
        THEN [raise |-> TRUE, trend |-> "", start_rel |-> NaN, end_rel |-> NaN]
        ELSE LET win == (n - w + 1)..n
                 max_price == SetMax({df[i].high : i \in win})
                 min_price == SetMin({df[i].low : i \in win})
                 rel_max == max_price - min_price
                 start_rel == RelPos(ema[n - w + 1], min_price, rel_max)
                 end_rel == RelPos(ema[n], min_price, rel_max)
             IN  [raise |-> FALSE,
                  trend |-> Classify(start_rel, end_rel, self.sideways_pct),
                  start_rel |-> start_rel, end_rel |-> end_rel]

\* lines 131-134 on their own: the frame without its last candle, its 'ema'
\* column, and the trend of the frame.
Analyse(self, rows) ==
    LET dataframe == ohlcv_to_dataframe(rows)
        ema == EMA(dataframe, self.smooth_ema)
        got == _get_ticker_trend(self, dataframe, ema.col)
    IN  IF ema.raise
        THEN [raise |-> TRUE, exc |-> "Exception", trend |-> "",
              start_rel |-> NaN, end_rel |-> NaN]
        ELSE [raise |-> got.raise, exc |-> IF got.raise THEN "IndexError" ELSE "",
              trend |-> got.trend, start_rel |-> got.start_rel, end_rel |-> got.end_rel]

\* ------------------------------------------------------------------------
\* The symbols cache: a dictionary symbol -> {last_refresh, result}
\* ------------------------------------------------------------------------
\* A variant of line 97 that empties the dictionary.
Del_Clear(cache, symbol) == [x \in {} |-> cache[x]]

\* line 97: del self._symbolsCache[symbol]
Del(cache, symbol) == [x \in DOMAIN cache \ {symbol} |-> cache[x]]
Put(cache, symbol, entry) ==
    [x \in DOMAIN cache \cup {symbol} |-> IF x = symbol THEN entry ELSE cache[x]]

\* int(datetime.now().timestamp()): the clock in whole seconds
IntTimestamp(now) == now \div TicksPerSecond

\* Variants of line 96 with a slip in the comparison.
IsExpired_Flipped(entry, refresh_period, now) ==
    (entry.last_refresh + refresh_period) * TicksPerSecond > now

IsExpired_IntNow(entry, refresh_period, now) ==
    entry.last_refresh + refresh_period < now \div TicksPerSecond

IsExpired_AtLimit(entry, refresh_period, now) ==
    (entry.last_refresh + refresh_period) * TicksPerSecond <= now

\* line 96: last_refresh + refresh_period < datetime.now().timestamp()
IsExpired(entry, refresh_period, now) ==
    (entry.last_refresh + refresh_period) * TicksPerSecond < now

\* A variant of line 141 that rounds the timestamp up instead of truncating it.
NewCacheData_RoundUp(now, result) ==
    [last_refresh |-> (now + TicksPerSecond - 1) \div TicksPerSecond, result |-> result]

\* A variant of line 141 that leaves the timestamp at 0.
NewCacheData_Unstamped(now, result) == [last_refresh |-> 0, result |-> result]

\* A variant of lines 140-143 that stores the opposite result.
NewCacheData_Negated(now, result) ==
    [last_refresh |-> IntTimestamp(now), result |-> ~result]

\* lines 140-143
NewCacheData(now, result) == [last_refresh |-> IntTimestamp(now), result |-> result]

\* lines 103-123: the start of the requested history, in ms.
\* arrow.utcnow().floor(unit).shift(unit=-n*total_periods), as whole seconds.
ShiftedStart(now, n, unit_s, total_periods) ==
    ((IntTimestamp(now) \div unit_s) * unit_s - n * total_periods * unit_s) * 1000

since_ms(self, now) ==
    IF Truthy(self.seconds)
    THEN Some(ShiftedStart(now, self.seconds.val, 1, self.total_periods))
    ELSE IF Truthy(self.minutes)
    THEN Some(ShiftedStart(now, self.minutes.val, 60, self.total_periods))
    ELSE IF Truthy(self.hours)
    THEN Some(ShiftedStart(now, self.hours.val, 3600, self.total_periods))
    ELSE IF Truthy(self.days)
    THEN Some(ShiftedStart(now, self.days.val, 86400, self.total_periods))
    ELSE None

\* ------------------------------------------------------------------------
\* TrendFilter._validate_pair
\* ------------------------------------------------------------------------
\* What the data source answers to get_historic_ohlcv: None, or a list.
NoSeries == [none |-> TRUE, rows |-> <<>>]
Series(rows) == [none |-> FALSE, rows |-> rows]

\* The trace of one call: how it ended (outcome "return" with result, or
\* "raise" with exc), the cache it left, and what it did on the way; pair,
\* timeframe and since are the arguments of get_historic_ohlcv, when fetched.
Started(cache) ==
    [outcome |-> "return", result |-> FALSE, exc |-> "", cache |-> cache,
     hit |-> FALSE, deleted |-> FALSE, fetched |-> FALSE,
     pair |-> "", timeframe |-> << >>, since |-> None,
     classified |-> FALSE, trend |-> "", wrote |-> FALSE]

\* A variant of lines 136-145 with the cache write outside the "if".
Decide_CacheAlways(self, symbol, t, trend, now2) ==
    [t EXCEPT !.classified = TRUE, !.trend = trend, !.result = (trend = self.trend),
              !.wrote = TRUE,
              !.cache = Put(t.cache, symbol, NewCacheData(now2, trend = self.trend))]

\* lines 136-145: compare the trend to the configured one; a match is cached.
\* now2 is the clock when line 141 reads it.
Decide(self, symbol, t, trend, now2) ==
    IF trend = self.trend
    THEN [t EXCEPT !.classified = TRUE, !.trend = trend, !.result = TRUE,
                   !.wrote = TRUE,
                   !.cache = Put(t.cache, symbol, NewCacheData(now2, TRUE))]
    ELSE [t EXCEPT !.classified = TRUE, !.trend = trend, !.result = FALSE]

\* lines 130-145: the data source answered a list of candles.
OnCandles(self, symbol, t, rows, now2) ==
    LET dataframe == ohlcv_to_dataframe(rows)
        ema == EMA(dataframe, self.smooth_ema)
        got == _get_ticker_trend(self, dataframe, ema.col)
    IN  IF ema.raise THEN [t EXCEPT !.outcome = "raise", !.exc = "Exception"]
        ELSE IF got.raise THEN [t EXCEPT !.outcome = "raise", !.exc = "IndexError"]
        ELSE Decide(self, symbol, t, got.trend, now2)

\* A variant of line 129 without the test for None.
AfterFetch_NoNoneTest(self, symbol, t, candles, now2) ==
    OnCandles(self, symbol, t, candles.rows, now2)

\* lines 129-148: after get_historic_ohlcv answered candles; t is the trace so
\* far.
AfterFetch(self, symbol, t, candles, now2) ==
    IF candles.none THEN [t EXCEPT !.result = FALSE]
    ELSE OnCandles(self, symbol, t, candles.rows, now2)

\* lines 101-148: the path of a cache miss.
OnMiss(self, symbol, t, now, candles, now2) ==
    IF "_seconds" \notin self.attrs
    THEN [t EXCEPT !.outcome = "raise", !.exc = "AttributeError"]
    ELSE AfterFetch(self, symbol,
                    [t EXCEPT !.fetched = TRUE, !.pair = symbol,
                              !.timeframe = self.timeframe,
                              !.since = since_ms(self, now)],
                    candles, now2)

\* lines 86-148.  now is the clock when the call starts, candles the answer of
\* the data source should the call ask it, now2 the clock after that answer.
_validate_pair(self, symbol, cache, now, candles, now2) ==
    LET t == Started(cache)
    IN  IF symbol \in DOMAIN cache
        THEN IF "_refresh_period" \notin self.attrs
             THEN [t EXCEPT !.outcome = "raise", !.exc = "AttributeError"]
             ELSE IF IsExpired(cache[symbol], self.refresh_period, now)
             THEN OnMiss(self, symbol,
                         [t EXCEPT !.deleted = TRUE, !.cache = Del(cache, symbol)],
                         now, candles, now2)
             ELSE [t EXCEPT !.hit = TRUE, !.result = cache[symbol].result]
        ELSE OnMiss(self, symbol, t, now, candles, now2)

\* ------------------------------------------------------------------------
\* Inputs
\* ------------------------------------------------------------------------
\* Timeframe strings of the constructor: every string of at most MaxTfLen
\* characters over this alphabet.
TimeframeChars == {"0", "1", "2", "5", "-", "x", "s", "m", "h", "d"}
TimeframeStrings == UNION {[1..n -> TimeframeChars] : n \in 0..MaxTfLen}

Config(trend, timeframe, window, smooth, pct, refresh) ==
    [trend |-> trend, timeframe |-> timeframe, window_periods |-> window,
     smooth_ema |-> smooth, sideways_pct |-> pct, refresh_period |-> refresh]

\* Configurations offered to the constructor: any trend string (the empty
\* string is an absent 'trend' key), any timeframe string or none.
TrendInputs == ValidTrends \cup {"", "up"}
CtorConfigs ==
    {Config(tr, tf, Missing, Missing, Missing, Missing) :
        tr \in TrendInputs,
        tf \in {MissingStr} \cup {Given(x) : x \in TimeframeStrings}}

\* Configurations of the filters that evaluate pairs: a window of 2 candles
\* smoothed over 2, one-second candles, a cache lifetime of 1 or 2 seconds.
RunConfig(trend, refresh) ==
    Config(trend, Given(<<"1", "s">>), Given(2), Given(2), Missing, Given(refresh))

InstanceConfig ==
    [i \in Instances |-> CASE i = "f1" -> RunConfig("any", 1)
                           [] i = "f2" -> RunConfig("bull", 1)
                           [] i = "f3" -> RunConfig("bear", 2)]

\* Candle series the data source returns: n candles whose prices are flat,
\* rise by one per candle, or fall by one per candle.
SeriesKinds == {"flat", "rising", "falling"}
Shape(kind, n) ==
    [i \in 1..n |-> LET c == CASE kind = "flat" -> 1
                               [] kind = "rising" -> i
                               [] kind = "falling" -> n + 1 - i
                    IN  Candle(c, c, c)]
Responses ==
    {NoSeries} \cup {Series(Shape(k, n)) : k \in SeriesKinds, n \in 0..MaxCandles}

\* Candle series handed to the classifier.  A filter with a window of 2
\* candles smoothed over 2 receives 5 candles (2 of lead-in, the 2 of the
\* window, and the candle still forming): any closes, and in the window any
\* high and low around the close.  The lead-in and the forming candle have
\* high = low = close.
SidewaysPcts == {0, 10, 50}
Prices == 1..MaxPrice
Bars == {Candle(h, l, c) : h \in Prices, l \in Prices, c \in Prices}
WindowCandles == {b \in Bars : b.low <= b.close /\ b.close <= b.high}
ShortSeries ==
    {<<Candle(c1, c1, c1), Candle(c2, c2, c2), b3, b4, Candle(1, 1, 1)>> :
        c1 \in Prices, c2 \in Prices, b3 \in WindowCandles, b4 \in WindowCandles}
ShortFilters ==
    {__init__(Config("bull", Given(<<"1", "s">>), Given(2), Given(2), Given(pct),
                     Missing)).self : pct \in SidewaysPcts}

\* A filter with the default window (100), smoothing (25) and tolerance (10)
\* receives window + smoothing candles whose closes rise by a constant step.
\* One candle (the candle at) has a high above and a low below its close; every
\* other candle has high = low = close.
Steps == {1, 2}
SpikeAt == {1, 25, 26, 70, 124, 125}
Spikes == {0, 1, 891, 1000, 2000}
RisingSeries(step, at, up, down) ==
    [i \in 1..(DefaultWindowPeriods + DefaultSmoothEma) |->
        LET c == SetMax(Spikes) + step * i
        IN  Candle(IF i = at THEN c + up ELSE c, IF i = at THEN c - down ELSE c, c)]
LongSeries ==
    {RisingSeries(step, at, up, down) :
        step \in Steps, at \in SpikeAt, up \in Spikes, down \in Spikes}
LongFilter ==
    __init__(Config("bull", Given(<<"1", "s">>), Missing, Missing, Missing, Missing)).self

\* Filters of every unit and of several magnitudes (window 2, smoothing 2),
\* the times, in ticks, at which they are called (one tick past 59 s, past
\* 1 h 2 min 5 s and past 1 d 1 h 1 min 1 s), and what the data source answers.
Magnitudes == {<<"0">>, <<"1">>, <<"2">>, <<"5">>, <<"0", "3">>}
UnitConfigs ==
    {Config("bull", Given(mag \o <<unit>>), Given(2), Given(2), Missing, Given(1)) :
        mag \in Magnitudes, unit \in UnitSuffixes}
ClockSeconds == {59, 3725, 90061}
Nows == {sec * TicksPerSecond + 1 : sec \in ClockSeconds}
LateResponses == {NoSeries, Series(Shape("rising", MaxCandles))}

\* ------------------------------------------------------------------------
\* State
\* ------------------------------------------------------------------------
VARIABLES
    filters,        \* the TrendFilter objects, by instance
    ctor,           \* the last constructor call: its input and how it ended
    _symbolsCache,  \* the class attribute shared by every instance
    clock,          \* the wall clock, in ticks
    last,           \* the last _validate_pair call: its input and its trace
    probe,          \* a candle series handed to the classifier, and its answer
    threads         \* the _validate_pair calls in progress, by thread

vars == <<filters, ctor, _symbolsCache, clock, last, probe, threads>>

NoCtor == [inst |-> "", cfg |-> Config("", MissingStr, Missing, Missing, Missing, Missing),
           outcome |-> "none", exc |-> ""]

NoCall == [inst |-> "", symbol |-> "", now |-> 0, again |-> FALSE, pre |-> {},
           answer |-> "none", ncandles |-> 0,
           outcome |-> "none", result |-> FALSE, exc |-> "",
           hit |-> FALSE, deleted |-> FALSE, fetched |-> FALSE,
           pair |-> "", timeframe |-> << >>, since |-> None,
           classified |-> FALSE, trend |-> "", wrote |-> FALSE, written |-> 0]

\* The classifier has not been handed a series / has been handed candles by
\* filter self and has not answered yet.
NoProbe == [self |-> NoFilter, candles |-> << >>, done |-> FALSE, raise |-> FALSE,
            exc |-> "", trend |-> "", start_rel |-> NaN, end_rel |-> NaN]
Probe(self, candles) == [NoProbe EXCEPT !.self = self, !.candles = candles]

\* Threads that call _validate_pair of one filter at the same time.  pc is
\* the line the thread is about to run ("idle" before its first call, "done"
\* after a return, "raised" after an exception); cache_data is the local
\* variable of line 95.
Threads == {"t1", "t2"}
SharedFilter == "f2"
Idle == [pc |-> "idle", inst |-> "", symbol |-> "", cache_data |-> {},
         result |-> FALSE, exc |-> ""]

\* The class is loaded, no filter is constructed yet; one constructor call
\* with some configuration is about to be made.
InitConstruct ==
    /\ filters = [i \in Instances |-> NoFilter]
    /\ ctor \in {[inst |-> "f1", cfg |-> c, outcome |-> "pending", exc |-> ""] :
                    c \in CtorConfigs}
    /\ _symbolsCache = << >>
    /\ clock = 0
    /\ last = NoCall
    /\ probe = NoProbe
    /\ threads = [th \in Threads |-> Idle]

\* The filters of a pair-list manager after their construction.
Init ==
    /\ filters = [i \in Instances |-> __init__(InstanceConfig[i]).self]
    /\ ctor = NoCtor
    /\ _symbolsCache = << >>
    /\ clock = 0
    /\ last = NoCall
    /\ probe = NoProbe
    /\ threads = [th \in Threads |-> Idle]

\* TrendFilter(...) with the pending configuration: a raise leaves no object
\* behind.
Construct(i) ==
    /\ ctor.outcome = "pending"
    /\ ctor.inst = i
    /\ \E r \in {__init__(ctor.cfg)} :
          /\ filters' = [filters EXCEPT ![i] = r.self]
          /\ ctor' = [ctor EXCEPT !.outcome = r.outcome, !.exc = r.exc]
    /\ UNCHANGED <<_symbolsCache, clock, last, probe, threads>>

\* What a call of filter i for symbol at time now leaves in last, t being its
\* trace.  written is the clock line 141 read, when the call wrote an entry;
\* again tells that the call before this one was made by the same filter for
\* the same symbol at the same time.
CallTrace(i, symbol, now, candles, t, now2) ==
    [inst |-> i, symbol |-> symbol, now |-> now,
     again |-> /\ last.outcome # "none" /\ last.inst = i
               /\ last.symbol = symbol /\ last.now = now,
     pre |-> IF symbol \in DOMAIN _symbolsCache THEN {_symbolsCache[symbol]} ELSE {},
     answer |-> IF ~t.fetched THEN "none" ELSE IF candles.none THEN "None" ELSE "list",
     ncandles |-> IF t.fetched THEN Len(candles.rows) ELSE 0,
     outcome |-> t.outcome, result |-> t.result, exc |-> t.exc,
     hit |-> t.hit, deleted |-> t.deleted, fetched |-> t.fetched,
     pair |-> t.pair, timeframe |-> t.timeframe, since |-> t.since,
     classified |-> t.classified, trend |-> t.trend, wrote |-> t.wrote,
     written |-> IF t.wrote THEN now2 ELSE 0]

\* filter._validate_pair({'symbol': symbol}); the data source, if asked,
\* answers candles after dt ticks.
ValidatePair(i, symbol, candles, dt) ==
    /\ filters[i].built
    /\ clock + dt <= MaxClock
    /\ \E t \in {_validate_pair(filters[i], symbol, _symbolsCache, clock, candles, clock + dt)} :
          /\ _symbolsCache' = t.cache
          /\ clock' = IF t.fetched THEN clock + dt ELSE clock
          /\ last' = CallTrace(i, symbol, clock, candles, t, clock + dt)
    /\ UNCHANGED <<filters, ctor, probe, threads>>

\* The same call made when the clock shows now, at or after the present time.
ValidatePairAt(i, symbol, candles, now) ==
    /\ filters[i].built
    /\ now >= clock
    /\ \E t \in {_validate_pair(filters[i], symbol, _symbolsCache, now, candles, now)} :
          /\ _symbolsCache' = t.cache
          /\ clock' = now
          /\ last' = CallTrace(i, symbol, now, candles, t, now)
    /\ UNCHANGED <<filters, ctor, probe, threads>>

\* Time passes between calls.
Tick ==
    /\ clock < MaxClock
    /\ clock' = clock + 1
    /\ UNCHANGED <<filters, ctor, _symbolsCache, last, probe, threads>>

Next ==
    \/ \E i \in Instances, symbol \in Symbols, candles \in Responses, dt \in {0, 1} :
          ValidatePair(i, symbol, candles, dt)
    \/ Tick

Spec == Init /\ [][Next]_vars

\* The constructor alone, on every configuration.
NextConstruct == \E i \in Instances : Construct(i)

SpecConstruct == InitConstruct /\ [][NextConstruct]_vars

\* One filter of some unit and magnitude, constructed and then called at
\* several times of day.
InitSince ==
    /\ filters = [i \in Instances |-> NoFilter]
    /\ ctor \in {[inst |-> "f1", cfg |-> c, outcome |-> "pending", exc |-> ""] :
                    c \in UnitConfigs}
    /\ _symbolsCache = << >>
    /\ clock = 0
    /\ last = NoCall
    /\ probe = NoProbe
    /\ threads = [th \in Threads |-> Idle]

NextSince ==
    \/ \E i \in Instances : Construct(i)
    \/ \E i \in Instances, symbol \in Symbols, candles \in LateResponses, now \in Nows :
          ValidatePairAt(i, symbol, candles, now)

SpecSince == InitSince /\ [][NextSince]_vars

\* Thread th calls filters[i]._validate_pair({'symbol': symbol}).
Call(th, i, symbol) ==
    /\ threads[th].pc \in {"idle", "done"}
    /\ filters[i].built /\ filters[i].enabled
    /\ threads' = [threads EXCEPT ![th] = [Idle EXCEPT !.pc = "94", !.inst = i,
                                                        !.symbol = symbol]]
    /\ UNCHANGED <<filters, ctor, _symbolsCache, clock, last, probe>>

\* line 94: if symbol in self._symbolsCache
Member(th) ==
    /\ threads[th].pc = "94"
    /\ threads' = [threads EXCEPT ![th].pc =
                      IF threads[th].symbol \in DOMAIN _symbolsCache THEN "95" ELSE "103"]
    /\ UNCHANGED <<filters, ctor, _symbolsCache, clock, last, probe>>

\* line 95: cache_data = self._symbolsCache[symbol]
ReadEntry(th) ==
    /\ threads[th].pc = "95"
    /\ threads' = [threads EXCEPT ![th] =
                      IF threads[th].symbol \in DOMAIN _symbolsCache
                      THEN [@ EXCEPT !.pc = "96",
                                     !.cache_data = {_symbolsCache[threads[th].symbol]}]
                      ELSE [@ EXCEPT !.pc = "raised", !.exc = "KeyError"]]
    /\ UNCHANGED <<filters, ctor, _symbolsCache, clock, last, probe>>

\* line 96: if last_refresh + self._refresh_period < datetime.now().timestamp()
Compare(th) ==
    /\ threads[th].pc = "96"
    /\ \E e \in threads[th].cache_data :
          threads' = [threads EXCEPT ![th].pc =
                         IF IsExpired(e, filters[threads[th].inst].refresh_period, clock)
                         THEN "97" ELSE "99"]
    /\ UNCHANGED <<filters, ctor, _symbolsCache, clock, last, probe>>

\* line 97: del self._symbolsCache[symbol]
Delete(th) ==
    /\ threads[th].pc = "97"
    /\ IF threads[th].symbol \in DOMAIN _symbolsCache
       THEN /\ _symbolsCache' = Del(_symbolsCache, threads[th].symbol)
            /\ threads' = [threads EXCEPT ![th].pc = "103"]
       ELSE /\ _symbolsCache' = _symbolsCache
            /\ threads' = [threads EXCEPT ![th].pc = "raised", ![th].exc = "KeyError"]
    /\ UNCHANGED <<filters, ctor, clock, last, probe>>

\* line 99: return cache_data['result']
ReturnCached(th) ==
    /\ threads[th].pc = "99"
    /\ \E e \in threads[th].cache_data :
          threads' = [threads EXCEPT ![th].pc = "done", ![th].result = e.result]
    /\ UNCHANGED <<filters, ctor, _symbolsCache, clock, last, probe>>

\* lines 103-139, 146-148: the data source answers candles and the thread
\* classifies them; on a match it goes on to write the entry.
Fetch(th, candles) ==
    /\ threads[th].pc = "103"
    /\ \E t \in {OnMiss(filters[threads[th].inst], threads[th].symbol,
                         Started(_symbolsCache), clock, candles, clock)} :
          threads' = [threads EXCEPT ![th] =
                         IF t.outcome = "raise"
                         THEN [@ EXCEPT !.pc = "raised", !.exc = t.exc]
                         ELSE IF t.wrote THEN [@ EXCEPT !.pc = "140"]
                         ELSE [@ EXCEPT !.pc = "done", !.result = t.result]]
    /\ UNCHANGED <<filters, ctor, _symbolsCache, clock, last, probe>>

\* lines 140-144: the entry is written with the clock of that moment
Write(th) ==
    /\ threads[th].pc = "140"
    /\ _symbolsCache' = Put(_symbolsCache, threads[th].symbol, NewCacheData(clock, TRUE))
    /\ threads' = [threads EXCEPT ![th].pc = "done", ![th].result = TRUE]
    /\ UNCHANGED <<filters, ctor, clock, last, probe>>

\* Calls of one filter by several threads, interleaved line by line.
NextThreads ==
    \/ \E th \in Threads, symbol \in Symbols : Call(th, SharedFilter, symbol)
    \/ \E th \in Threads : Member(th)
    \/ \E th \in Threads : ReadEntry(th)
    \/ \E th \in Threads : Compare(th)
    \/ \E th \in Threads : Delete(th)
    \/ \E th \in Threads : ReturnCached(th)
    \/ \E th \in Threads, candles \in LateResponses : Fetch(th, candles)
    \/ \E th \in Threads : Write(th)
    \/ Tick

SpecThreads == Init /\ [][NextThreads]_vars

\* The classifier alone: a filter is handed a candle series.
InitClassify ==
    /\ filters = [i \in Instances |-> NoFilter]
    /\ ctor = NoCtor
    /\ _symbolsCache = << >>
    /\ clock = 0
    /\ last = NoCall
    /\ probe \in {Probe(self, candles) : self \in ShortFilters, candles \in ShortSeries}
                 \cup {Probe(LongFilter, candles) : candles \in LongSeries}
    /\ threads = [th \in Threads |-> Idle]

\* lines 131-134 on the candles of the probe
GetTickerTrend ==
    /\ ~probe.done
    /\ \E r \in {Analyse(probe.self, probe.candles)} :
          probe' = [probe EXCEPT !.done = TRUE, !.raise = r.raise, !.exc = r.exc,
                                 !.trend = r.trend, !.start_rel = r.start_rel,
                                 !.end_rel = r.end_rel]
    /\ UNCHANGED <<filters, ctor, _symbolsCache, clock, last, threads>>

NextClassify == GetTickerTrend

SpecClassify == InitClassify /\ [][NextClassify]_vars

\* ------------------------------------------------------------------------
\* Vocabulary of the properties
\* ------------------------------------------------------------------------
\* A call of _validate_pair has ended; Caller is the filter that made it.
Called == last.outcome \in {"return", "raise"}
Caller == filters[last.inst]
EnabledCall == Called /\ Caller.enabled

\* The age, in ticks, of cache entry e when the last call started, and the
\* refresh period of the calling filter in ticks.
AgeAtCall(e) == last.now - e.last_refresh * TicksPerSecond
Period == Caller.refresh_period * TicksPerSecond

\* The last call classified a series and the trend is not the configured one.
Mismatch(l) == l.classified /\ l.trend # filters[l.inst].trend

\* The constructor call has ended.
Constructed == ctor.outcome \in {"ok", "raise"}
NoInstance == ~filters[ctor.inst].built
ConfigError == ctor.outcome = "raise" /\ ctor.exc = "OperationalException" /\ NoInstance
LastChar(str) == str[Len(str)]

\* ------------------------------------------------------------------------
\* C1: a filter configured with trend = any returns True for every symbol
\* without touching the cache, the data source or the classifier.
\* ------------------------------------------------------------------------
C1_AnyAlwaysTrue ==
    (Called /\ Caller.trend = "any") =>
        /\ last.outcome = "return"
        /\ last.result = TRUE
        /\ ~last.hit /\ ~last.deleted /\ ~last.wrote
        /\ ~last.fetched /\ ~last.classified

C3_StaleEntryDeletedAndRefetched ==
    EnabledCall =>
        \A e \in last.pre :
            (e.result /\ AgeAtCall(e) > Period) =>
                /\ ~last.hit
                /\ last.deleted
                /\ last.fetched
                /\ (last.symbol \in DOMAIN _symbolsCache => last.wrote)

C3_Witness ==
    /\ EnabledCall
    /\ \E e \in last.pre : e.result /\ AgeAtCall(e) > Period
    /\ last.deleted /\ last.fetched /\ last.outcome = "return"

\* ------------------------------------------------------------------------
\* C4 as stated: the lookup hits only while now - last_refresh is strictly
\* below refresh_period; at equality it misses and the entry is removed.
\* ------------------------------------------------------------------------
C4_HitOnlyStrictlyWithinPeriod ==
    EnabledCall =>
        \A e \in last.pre :
            /\ last.hit <=> AgeAtCall(e) < Period
            /\ AgeAtCall(e) = Period => last.deleted

\* C4 as amended: the lookup hits exactly when now - last_refresh is at most
\* refresh_period; at equality it hits and the entry stays; the entry is
\* removed exactly when now - last_refresh exceeds refresh_period.
C4_HitWithinPeriodInclusive ==
    EnabledCall =>
        \A e \in last.pre :
            /\ last.hit <=> AgeAtCall(e) <= Period
            /\ last.deleted <=> AgeAtCall(e) > Period
            /\ last.hit => /\ last.symbol \in DOMAIN _symbolsCache
                           /\ _symbolsCache[last.symbol] = e
                           /\ last.result = e.result

C4_Witness ==
    /\ EnabledCall
    /\ \E e \in last.pre : AgeAtCall(e) = Period
    /\ last.hit /\ ~last.deleted /\ last.symbol \in DOMAIN _symbolsCache

\* ------------------------------------------------------------------------
\* C5: a call whose series classifies to another trend than the configured
\* one returns False and leaves no entry for the symbol, so the next call of
\* an enabled filter for that symbol asks the data source again.
\* ------------------------------------------------------------------------
C5_NegativeNeverCached ==
    [][last' # last =>
        /\ Mismatch(last') =>
              /\ last'.outcome = "return" /\ last'.result = FALSE
              /\ last'.fetched /\ ~last'.wrote
              /\ last'.symbol \notin DOMAIN _symbolsCache'
        /\ (Mismatch(last) /\ last'.symbol = last.symbol /\ filters[last'.inst].enabled) =>
              ~last'.hit /\ last'.fetched]_vars

C5_Witness ==
    /\ EnabledCall /\ Mismatch(last)
    /\ last.pre # {} /\ last.deleted
    /\ last.result = FALSE /\ last.symbol \notin DOMAIN _symbolsCache

\* ------------------------------------------------------------------------
\* C6: when the data source returns None the call returns False and leaves no
\* entry for the symbol, so the next call of an enabled filter for that symbol
\* asks the data source again.
\* ------------------------------------------------------------------------
C6_NoDataNeverCached ==
    [][last' # last =>
        /\ last'.answer = "None" =>
              /\ last'.outcome = "return" /\ last'.result = FALSE
              /\ last'.fetched /\ ~last'.wrote /\ ~last'.classified
              /\ last'.symbol \notin DOMAIN _symbolsCache'
        /\ (last.answer = "None" /\ last'.symbol = last.symbol
                /\ filters[last'.inst].enabled) =>
              ~last'.hit /\ last'.fetched]_vars

C6_Witness ==
    /\ EnabledCall /\ last.answer = "None"
    /\ last.pre # {} /\ last.deleted
    /\ last.result = FALSE /\ last.symbol \notin DOMAIN _symbolsCache

\* ------------------------------------------------------------------------
\* C7 as stated: after a miss whose trend is the configured one the call
\* returns True and the cache holds {result: True, last_refresh: now} for the
\* symbol, now being the time of the call.
\* ------------------------------------------------------------------------
C7_EntryStampedWithCallTime ==
    (EnabledCall /\ last.classified /\ last.trend = Caller.trend) =>
        /\ last.outcome = "return" /\ last.result = TRUE
        /\ last.symbol \in DOMAIN _symbolsCache
        /\ _symbolsCache[last.symbol].result = TRUE
        /\ _symbolsCache[last.symbol].last_refresh * TicksPerSecond = last.now

\* C7 as amended: ... the cache holds {result: True, last_refresh: s} for the
\* symbol, s being the whole seconds of the clock read when the entry is
\* written, which is not before the time of the call.
C7_EntryStampedWithWholeSecondsAtWrite ==
    (EnabledCall /\ last.classified /\ last.trend = Caller.trend) =>
        /\ last.outcome = "return" /\ last.result = TRUE
        /\ ~last.hit /\ last.wrote
        /\ last.symbol \in DOMAIN _symbolsCache
        /\ _symbolsCache[last.symbol].result = TRUE
        /\ last.written >= last.now
        /\ _symbolsCache[last.symbol].last_refresh * TicksPerSecond <= last.written
        /\ last.written < (_symbolsCache[last.symbol].last_refresh + 1) * TicksPerSecond

C7_Witness ==
    /\ EnabledCall /\ last.classified /\ last.trend = Caller.trend
    /\ last.result = TRUE /\ last.wrote
    /\ last.written > last.now
    /\ _symbolsCache[last.symbol].last_refresh * TicksPerSecond < last.written

\* ------------------------------------------------------------------------
\* C8: a call of an enabled filter returns a boolean and never raises,
\* whatever the data source answers.
\* ------------------------------------------------------------------------
C8_NeverRaises ==
    EnabledCall => last.outcome = "return"

\* ------------------------------------------------------------------------
\* C9: the constructor raises a configuration error and yields no instance
\* when trend is not one of any/bull/bear/sideways, when trend is not any and
\* no timeframe is configured, and when trend is not any and the last
\* character of the (non-empty) timeframe is not s, m, h or d; with trend =
\* any it succeeds, with or without a timeframe.
\* ------------------------------------------------------------------------
C9_ConfigurationErrors ==
    Constructed =>
        LET trend == ctor.cfg.trend
            tf == ctor.cfg.timeframe
        IN  /\ trend \notin {"any", "bull", "bear", "sideways"} => ConfigError
            /\ (trend \in {"bull", "bear", "sideways"} /\ ~tf.present) => ConfigError
            /\ (trend \in {"bull", "bear", "sideways"} /\ tf.present /\ Len(tf.val) > 0
                    /\ LastChar(tf.val) \notin {"s", "m", "h", "d"}) => ConfigError
            /\ trend = "any" => (ctor.outcome = "ok" /\ filters[ctor.inst].built
                                  /\ ~filters[ctor.inst].enabled)

C9_Witness ==
    /\ Constructed
    /\ ctor.cfg.trend \in {"bull", "bear", "sideways"}
    /\ ctor.cfg.timeframe.present
    /\ Len(ctor.cfg.timeframe.val) > 1
    /\ LastChar(ctor.cfg.timeframe.val) \notin {"s", "m", "h", "d"}
    /\ ConfigError

\* ------------------------------------------------------------------------
\* C10: the constructor accepts exactly the timeframes made of a positive
\* integer followed by s, m, h or d, stores that magnitude in that unit, and
\* rejects every other timeframe with a configuration error.
\* ------------------------------------------------------------------------
PositivePrefix(str) ==
    LET prefix == SubSeq(str, 1, Len(str) - 1)
    IN  AllDigits(prefix) /\ DigitsValue(prefix) > 0

C10_OnlyPositiveMagnitudesAccepted ==
    (Constructed /\ ctor.cfg.trend \in {"bull", "bear", "sideways"}
        /\ ctor.cfg.timeframe.present /\ Len(ctor.cfg.timeframe.val) > 0) =>
        LET tf == ctor.cfg.timeframe.val
            wellFormed == LastChar(tf) \in {"s", "m", "h", "d"} /\ PositivePrefix(tf)
            self == filters[ctor.inst]
            magnitude == Some(DigitsValue(SubSeq(tf, 1, Len(tf) - 1)))
        IN  /\ ctor.outcome = "ok" <=> wellFormed
            /\ ~wellFormed => ConfigError
            /\ wellFormed =>
                  /\ self.seconds = IF LastChar(tf) = "s" THEN magnitude ELSE None
                  /\ self.minutes = IF LastChar(tf) = "m" THEN magnitude ELSE None
                  /\ self.hours = IF LastChar(tf) = "h" THEN magnitude ELSE None
                  /\ self.days = IF LastChar(tf) = "d" THEN magnitude ELSE None

\* ------------------------------------------------------------------------
\* C11: the classifier returns bear if start_rel > end_rel + sideways_pct,
\* bull if start_rel < end_rel - sideways_pct and sideways otherwise, both
\* comparisons being strict: relative positions that differ by exactly
\* sideways_pct, in either direction, give sideways; exactly one label is
\* returned for every series.  (sideways_pct is a tolerance, not negative.)
\* ------------------------------------------------------------------------
Classified == probe.done /\ ~probe.raise
Band == FromInt(probe.self.sideways_pct)
Displacement == FSub(probe.end_rel, probe.start_rel)

C11_StrictBand ==
    probe.done =>
        /\ ~probe.raise
        /\ probe.trend \in {"bear", "bull", "sideways"}
        /\ probe.trend = "bear" <=> FGt(probe.start_rel, FAdd(probe.end_rel, Band))
        /\ probe.trend = "bull" <=> FLt(probe.start_rel, FSub(probe.end_rel, Band))
        /\ (Displacement = Band \/ Displacement = FNeg(Band)) => probe.trend = "sideways"

C11_Witness ==
    /\ Classified
    /\ probe.self.sideways_pct > 0
    /\ Displacement = Band
    /\ probe.trend = "sideways"

\* ------------------------------------------------------------------------
\* C12: when the window is flat (its highest high equals its lowest low, a
\* price range of 0) the classification does not raise and gives one label,
\* the same for every such series and every call: sideways.
\* ------------------------------------------------------------------------
ProbeFrame == ohlcv_to_dataframe(probe.candles)
ProbeWindow ==
    {ProbeFrame[i] : i \in (Len(ProbeFrame) - probe.self.window_periods + 1)..Len(ProbeFrame)}
WindowRange ==
    SetMax({b.high : b \in ProbeWindow}) - SetMin({b.low : b \in ProbeWindow})
FlatWindow ==
    /\ Len(ProbeFrame) >= probe.self.window_periods
    /\ WindowRange = 0

C12_FlatWindowIsSideways ==
    (probe.done /\ FlatWindow) =>
        /\ ~probe.raise
        /\ probe.trend = "sideways"

\* A flat window below the smoothed curve: the division by zero gave +inf.
C12_Witness ==
    /\ probe.done /\ FlatWindow
    /\ probe.start_rel = PInf /\ probe.end_rel = PInf
    /\ ~probe.raise /\ probe.trend = "sideways"

\* ------------------------------------------------------------------------
\* C13 as stated: a second call of the same filter with the same symbol at
\* the same time leaves the cache as the first call left it, whatever the
\* data source answers to each of the two calls.
\* ------------------------------------------------------------------------
SecondCall ==
    /\ EnabledCall /\ last' # last /\ last'.again
    /\ last.outcome = "return" /\ last'.outcome = "return"

C13_SecondCallChangesNothing ==
    [][SecondCall => _symbolsCache' = _symbolsCache]_vars

\* C13 as amended: when the first call left an entry for the symbol the
\* second call is a hit and leaves the cache as it is; when the first call
\* left none (no data, or another trend) the second call asks the data source
\* again and leaves the cache as it is exactly when it finds no match: a
\* match adds the entry the first call did not leave.
C13_SecondCallAddsOnlyAMatch ==
    [][/\ last' = last => _symbolsCache' = _symbolsCache
       /\ SecondCall =>
             /\ last.symbol \in DOMAIN _symbolsCache =>
                   last'.hit /\ _symbolsCache' = _symbolsCache
             /\ last.symbol \notin DOMAIN _symbolsCache =>
                   /\ last'.fetched
                   /\ _symbolsCache' = _symbolsCache <=>
                          ~(last'.classified /\ last'.trend = filters[last'.inst].trend)
                   /\ _symbolsCache' # _symbolsCache =>
                          _symbolsCache' = Put(_symbolsCache, last.symbol,
                                               _symbolsCache'[last.symbol])]_vars

\* The second of two such calls hit the entry the first one wrote.
C13_Witness ==
    /\ EnabledCall /\ last.again /\ last.hit /\ last.outcome = "return"
    /\ \E e \in last.pre : IntTimestamp(last.now) = e.last_refresh
    /\ last.symbol \in DOMAIN _symbolsCache

\* ------------------------------------------------------------------------
\* C14 as stated: a series of 125 candles whose closes rise, classified with
\* window_periods = 100 and smooth_ema = 25, has start_rel < end_rel -
\* sideways_pct and is bull, for every choice of highs and lows around those
\* closes.
\* ------------------------------------------------------------------------
RisingCase ==
    /\ probe.done
    /\ Len(probe.candles) = 125
    /\ probe.self.window_periods = 100 /\ probe.self.smooth_ema = 25
    /\ \A i \in 1..124 : probe.candles[i].close < probe.candles[i + 1].close
    /\ \A i \in 1..125 : /\ probe.candles[i].low <= probe.candles[i].close
                          /\ probe.candles[i].close <= probe.candles[i].high

IsBull ==
    /\ ~probe.raise
    /\ FLt(probe.start_rel, FSub(probe.end_rel, Band))
    /\ probe.trend = "bull"

C14_RisingIsBull == RisingCase => IsBull

\* C14 as amended: when the closes of the 125 candles rise by a constant
\* step, the series is bull exactly when the price range of the window (the
\* highest high minus the lowest low of the last 100 complete candles) is
\* below 100 / sideways_pct times the rise of the close across the window,
\* as it is when every high and low equals its close; with a wider range (one
\* high or low far from its close) the series is sideways.
WindowRise ==
    ProbeFrame[Len(ProbeFrame)].close
        - ProbeFrame[Len(ProbeFrame) - probe.self.window_periods + 1].close
ConstantStep ==
    \A i \in 1..123 : probe.candles[i + 1].close - probe.candles[i].close
                          = probe.candles[i + 2].close - probe.candles[i + 1].close

C14_RisingIsBullWithinRange ==
    (RisingCase /\ ConstantStep) =>
        /\ WindowRange * probe.self.sideways_pct < 100 * WindowRise => IsBull
        /\ WindowRange * probe.self.sideways_pct >= 100 * WindowRise =>
              ~probe.raise /\ probe.trend = "sideways"
        /\ (\A b \in ProbeWindow : b.high = b.close /\ b.low = b.close) => IsBull

\* A rising series with one high and one low off the close, still bull.
C14_Witness ==
    /\ RisingCase /\ ConstantStep
    /\ \E b \in ProbeWindow : b.high > b.close /\ b.low < b.close
    /\ WindowRange > WindowRise
    /\ IsBull

\* ------------------------------------------------------------------------
\* C15: on every cache miss the candles are requested for the symbol of the
\* call and the timeframe of the configuration, from the start time
\* now - total_periods * timeframe duration (now taken at the precision of
\* the timeframe unit), total_periods being window_periods + smooth_ema; so
\* for each of the four units and every magnitude the constructor parsed, and
\* the start time is never undefined.
\* ------------------------------------------------------------------------
UnitSeconds(unit) ==
    CASE unit = "s" -> 1 [] unit = "m" -> 60 [] unit = "h" -> 3600 [] unit = "d" -> 86400

C15_RequestStartsTotalPeriodsBack ==
    (EnabledCall /\ last.fetched) =>
        LET self == Caller
            tf == ctor.cfg.timeframe.val
            unit == UnitSeconds(LastChar(tf))
            magnitude == int(SubSeq(tf, 1, Len(tf) - 1)).val
            total_periods == self.window_periods + self.smooth_ema
            start == last.now - total_periods * magnitude * unit * TicksPerSecond
            since_s == last.since.val \div 1000
        IN  /\ last.pair = last.symbol
            /\ last.timeframe = tf
            /\ ~last.since.none
            /\ last.since.val = since_s * 1000
            /\ since_s * TicksPerSecond <= start
            /\ start < (since_s + unit) * TicksPerSecond

\* ------------------------------------------------------------------------
\* C16: however the steps (membership test, expiry comparison, deletion,
\* fetch, write) of concurrent calls interleave, for one symbol or for
\* different symbols, no call fails and the cache holds at most one entry
\* per symbol.
\* ------------------------------------------------------------------------
C16_NoCallFailsUnderInterleaving ==
    /\ \A th \in Threads : threads[th].pc # "raised"
    /\ DOMAIN _symbolsCache \subseteq Symbols
    /\ \A symbol \in DOMAIN _symbolsCache :
          _symbolsCache[symbol] \in [last_refresh : 0..MaxClock, result : BOOLEAN]

\* ------------------------------------------------------------------------
\* C17: a call for symbol A reads, deletes and writes the entry of A only:
\* whatever its outcome (hit, expiry, no data, match, mismatch, raise), every
\* other symbol has the same entry, or no entry, after the call as before.
\* ------------------------------------------------------------------------
C17_OtherEntriesUntouched ==
    [][\A b \in Symbols \ {last'.symbol} :
          /\ b \in DOMAIN _symbolsCache' <=> b \in DOMAIN _symbolsCache
          /\ b \in DOMAIN _symbolsCache => _symbolsCache'[b] = _symbolsCache[b]]_vars

\* A call for A deleted the expired entry of A and wrote none, next to the
\* entry of B.
C17_Witness ==
    /\ EnabledCall /\ last.deleted /\ ~last.wrote /\ last.outcome = "return"
    /\ last.symbol \notin DOMAIN _symbolsCache
    /\ \E b \in DOMAIN _symbolsCache : b # last.symbol

\* ------------------------------------------------------------------------
\* C18: after any sequence of calls every entry of the cache has result =
\* True; so every cache hit returns True, and a call returns False only after
\* it asked the data source.
\* ------------------------------------------------------------------------
C18_OnlyPositiveEntries ==
    /\ \A symbol \in DOMAIN _symbolsCache : _symbolsCache[symbol].result = TRUE
    /\ (Called /\ last.hit) => (last.outcome = "return" /\ last.result = TRUE)
    /\ (Called /\ last.outcome = "return" /\ last.result = FALSE) =>
          (last.fetched /\ ~last.hit)

\* A call found the expired entry of its symbol, asked the data source and
\* returned False, next to the entry of another symbol.
C18_Witness ==
    /\ EnabledCall /\ last.outcome = "return" /\ last.result = FALSE
    /\ last.pre # {} /\ last.fetched
    /\ DOMAIN _symbolsCache # {}

\* ------------------------------------------------------------------------
\* C19: the boolean a filter returns on a cache hit comes from a
\* classification against the trend of that same filter: a call that hits the
\* entry the call before it wrote for the same symbol is a call of a filter
\* with the trend of the filter that wrote it, so a filter never returns True
\* because of an entry that a filter of another trend wrote.
\* ------------------------------------------------------------------------
C19_HitsOwnEntriesOnly ==
    [][(/\ Called /\ last.wrote
        /\ last' # last /\ last'.symbol = last.symbol
        /\ last'.hit /\ last'.result = TRUE
        /\ last'.pre = {_symbolsCache[last.symbol]})
           => filters[last'.inst].trend = filters[last.inst].trend]_vars

====
